---- MODULE Spec2Model ----
(***************************************************************************)
(* Model of the Generative Stochastic Network of                           *)
(* opendeep/models/multi_layer/generative_stochastic_network.py.           *)
(*                                                                         *)
(* A tensor is the sequence of its columns (the batch axis is not          *)
(* modelled).  A column is a record [deps, top]: deps is the set of the    *)
(* graph's leaves (inputs, parameters, random draws) the column is         *)
(* computed from, top is the operation that produced it.  A leaf is a      *)
(* triple <<kind, layer or column, walkback>>.                             *)
(***************************************************************************)
EXTENDS Integers, Sequences, FiniteSets, TLC

\* ---------------------------------------------------------------- bounds
MaxLayers == 3
MaxWalkbacks == 3
MaxWidth == 2
MaxLog == 3

\* ------------------------------------------------------- values and names
None == 0

\* the noise options, in tenths: hidden_add_noise_sigma 2, noise_annealing 1.0
DefaultSigma == 20
DefaultAnnealing == 10
\* the values of input_salt_and_pepper tried (0.4 is the default)
DefaultSalt == 4
SaltValues == {3, DefaultSalt}

Min(a, b) == IF a < b THEN a ELSE b

\* the random draws a graph can contain
GAUSS_PRE == "gauss_pre"
GAUSS_POST == "gauss_post"
SP_INIT == "sp_init"
SP == "sp"
BINOMIAL == "binomial"
NoiseKinds == {GAUSS_PRE, GAUSS_POST, SP_INIT, SP, BINOMIAL}
SHAPE_ERROR == <<"shape_error", 0, 0>>

\* ------------------------------------------------------ tensor operations
\* the union of the leaves of all columns of a tensor
AllDeps(t) == UNION {t[j].deps : j \in 1..Len(t)}

\* a symbolic matrix of the given width, every column its own leaf
fmatrix(name, n, width) ==
    [j \in 1..width |-> [deps |-> {<<name, j, n>>}, top |-> "input"]]

zeros_like(t) == [j \in 1..Len(t) |-> [deps |-> {}, top |-> "zeros"]]

\* a weight matrix is [i, rows, cols]; its transpose swaps rows and cols
Transpose(w) == [i |-> w.i, rows |-> w.cols, cols |-> w.rows]

\* T.dot(h, w): every output column is computed from every column of h
dot(h, w) ==
    LET d == AllDeps(h) \cup {<<"W", w.i, 0>>}
                 \cup (IF Len(h) = w.rows THEN {} ELSE {SHAPE_ERROR})
    IN  [j \in 1..w.cols |-> [deps |-> d, top |-> "dot"]]

\* elementwise a + b of two tensors of the same width
add(a, b) ==
    [j \in 1..Len(a) |->
        [deps |-> a[j].deps
                    \cup (IF j <= Len(b) THEN b[j].deps ELSE {})
                    \cup (IF Len(a) = Len(b) THEN {} ELSE {SHAPE_ERROR}),
         top |-> "add"]]

\* t + b for a bias vector b = [i, size]
add_bias(t, b) ==
    [j \in 1..Len(t) |->
        [deps |-> t[j].deps \cup {<<"b", b.i, 0>>}
                    \cup (IF Len(t) = b.size THEN {} ELSE {SHAPE_ERROR}),
         top |-> "add"]]

\* an elementwise operation: every column gains the leaves in extra
Elementwise(t, op, extra) ==
    [j \in 1..Len(t) |-> [deps |-> t[j].deps \cup extra, top |-> op]]

add_gaussian(t, draw) == Elementwise(t, "add_gaussian", {draw})
salt_and_pepper(t, draw) == Elementwise(t, "salt_and_pepper", {draw})
binomial(t, draw) == Elementwise(t, "binomial", {draw})
visible_activation(t) == Elementwise(t, "visible_activation", {})
hidden_activation(t) == Elementwise(t, "hidden_activation", {})

\* Python's seq[a:b] on 0-based positions, clipped to the sequence
Slice(t, a, b) == SubSeq(t, Min(a, Len(t)) + 1, Min(b, Len(t)))

RECURSIVE concatenate(_)
concatenate(list) ==
    IF list = <<>> THEN <<>> ELSE Head(list) \o concatenate(Tail(list))

\* ------------------------------------------------------------ parameters
\* self.layer_sizes = [N_input] + [hidden_size] * layers
layer_sizes_of(n_input, hidden_size, layers) ==
    <<n_input>> \o [i \in 1..layers |-> hidden_size]

\* W_i_(i+1) of shape (layer_sizes[i], layer_sizes[i+1]), i in range(layers)
make_weights_list(ls, layers) ==
    [n \in 1..layers |-> [i |-> n - 1, rows |-> ls[n], cols |-> ls[n + 1]]]

\* b_i of shape (layer_sizes[i],), i in range(layers + 1)
make_bias_list(ls, layers) ==
    [n \in 1..(layers + 1) |-> [i |-> n - 1, size |-> ls[n]]]

\* the shared variable of a weight, named W_i_(i+1), or of a bias, named b_i
weight_param(w) == [name |-> <<"W", w.i, w.i + 1>>, shape |-> <<w.rows, w.cols>>]
bias_param(b) == [name |-> <<"b", b.i>>, shape |-> <<b.size>>]

\* the biases ahead of the weights
params_bias_first(ws, bs) ==
    [n \in 1..Len(bs) |-> bias_param(bs[n])] \o
    [n \in 1..Len(ws) |-> weight_param(ws[n])]

\* self.params = self.weights_list + self.bias_list
params_of(ws, bs) ==
    [n \in 1..Len(ws) |-> weight_param(ws[n])] \o
    [n \in 1..Len(bs) |-> bias_param(bs[n])]

\* ------------------------------------------------------- the layer update
\* affine with the visible layer multiplied by W_0 instead of W_0.T
affine_untransposed(hs, ws, bs, i) ==
    IF i = 0
    THEN add_bias(dot(hs[i + 2], ws[i + 1]), bs[i + 1])
    ELSE IF i = Len(hs) - 1
    THEN add_bias(dot(hs[i], ws[i]), bs[i + 1])
    ELSE add_bias(add(dot(hs[i + 2], Transpose(ws[i + 1])), dot(hs[i], ws[i])),
                  bs[i + 1])

\* affine with the in-between layers computed from the layer below alone
affine_lower_only(hs, ws, bs, i) ==
    IF i = 0
    THEN add_bias(dot(hs[i + 2], Transpose(ws[i + 1])), bs[i + 1])
    ELSE add_bias(dot(hs[i], ws[i]), bs[i + 1])

\* the dot products of layer i (Python index i, the list is 1-based here)
affine(hs, ws, bs, i) ==
    IF i = 0
    THEN add_bias(dot(hs[i + 2], Transpose(ws[i + 1])), bs[i + 1])
    ELSE IF i = Len(hs) - 1
    THEN add_bias(dot(hs[i], ws[i]), bs[i + 1])
    ELSE add_bias(add(dot(hs[i + 2], Transpose(ws[i + 1])), dot(hs[i], ws[i])),
                  bs[i + 1])

\* layer_add_noise without the noiseless_h1 test
layer_add_noise_everywhere(i, addnoise, noiseless_h1) == addnoise

\* add_noise = False kept for the rest of the odd pass
layer_add_noise_odd_pass(i, addnoise, noiseless_h1) ==
    IF i % 2 = 1 /\ noiseless_h1 THEN FALSE ELSE addnoise

\* the value of add_noise after "if i == 1 and noiseless_h1: add_noise = False"
layer_add_noise(i, addnoise, noiseless_h1) ==
    IF i = 1 /\ noiseless_h1 THEN FALSE ELSE addnoise

\* the next input without the corruption
sample_input_uncorrupted(p, input_sampling, k) ==
    IF input_sampling THEN binomial(p, <<BINOMIAL, 0, k>>) ELSE p

\* the next input made from the reconstruction p: sampling, then corruption
sample_input(p, input_sampling, k) ==
    LET sampled == IF input_sampling THEN binomial(p, <<BINOMIAL, 0, k>>) ELSE p
    IN  salt_and_pepper(sampled, <<SP, 0, k>>)

\* one call of simple_update_layer in walkback k: the new list and chain
simple_update_layer(hs, ws, bs, chain, i, addnoise, noiseless_h1, input_sampling, k) ==
    LET noisy == layer_add_noise(i, addnoise, noiseless_h1)
        a     == affine(hs, ws, bs, i)
        pre   == IF i # 0 /\ noisy THEN add_gaussian(a, <<GAUSS_PRE, i, k>>) ELSE a
        act   == IF i = 0 THEN visible_activation(pre) ELSE hidden_activation(pre)
        post  == IF i # 0 /\ noisy THEN add_gaussian(act, <<GAUSS_POST, i, k>>) ELSE act
    IN  IF i = 0
        THEN [hiddens |-> [hs EXCEPT ![i + 1] = sample_input(post, input_sampling, k)],
              p_X_chain |-> Append(chain, post)]
        ELSE [hiddens |-> [hs EXCEPT ![i + 1] = post],
              p_X_chain |-> chain]

\* the entries of the list that the update of layer i reads
neighbours(i, len) ==
    IF i = 0 THEN {1} ELSE IF i = len - 1 THEN {i - 1} ELSE {i - 1, i + 1}

\* whether the new value of layer i is computed from a value the top layer
\* took from the input x: it is such a value itself, or it reads one
top_influence(flow, i, new, x) ==
    \/ i = Len(flow) - 1 /\ AllDeps(new) \cap AllDeps(x) # {}
    \/ \E n \in neighbours(i, Len(flow)) : flow[n + 1]

\* ------------------------------------------------------- the graph builder
\* X_init of build_gsn
corrupt_input(x, addnoise) ==
    IF addnoise THEN salt_and_pepper(x, <<SP_INIT, 0, 0>>) ELSE x

\* the hidden layers initialised with the products instead of zeros
RECURSIVE init_hiddens_forward(_, _)
init_hiddens_forward(hs, ws) ==
    IF ws = <<>> THEN hs
    ELSE init_hiddens_forward(Append(hs, dot(hs[Len(hs)], Head(ws))), Tail(ws))

\* hiddens = [X_init]; for w in weights_list: hiddens.append(zeros_like(dot(hiddens[-1], w)))
RECURSIVE init_hiddens(_, _)
init_hiddens(hs, ws) ==
    IF ws = <<>> THEN hs
    ELSE init_hiddens(Append(hs, zeros_like(dot(hs[Len(hs)], Head(ws)))), Tail(ws))

\* a cost that does not look at X
cost_of_reconstruction(rX, x) == [kind |-> "cost", deps |-> AllDeps(rX), n |-> 1]

\* cost_function(rX, X): a scalar computed from both tensors
cost_of(rX, x) == [kind |-> "cost", deps |-> AllDeps(rX) \cup AllDeps(x), n |-> 1]

\* a sum that keeps only the last cost
numpy_sum_last(costs) ==
    [kind |-> "sum", deps |-> costs[Len(costs)].deps, n |-> 1]

\* numpy.sum(costs)
numpy_sum(costs) ==
    [kind |-> "sum",
     deps |-> UNION {costs[j].deps : j \in 1..Len(costs)},
     n |-> Len(costs)]

NoCost == [kind |-> "unset", deps |-> {}, n |-> 0]

\* ------------------------------------------------ the passes as functions
\* for i in range(first, len(hiddens), 2): simple_update_layer(..., i, ...)
RECURSIVE update_from(_, _, _, _, _, _, _, _, _)
update_from(hs, ws, bs, chain, i, addnoise, noiseless_h1, input_sampling, k) ==
    IF i >= Len(hs) THEN [hiddens |-> hs, p_X_chain |-> chain]
    ELSE LET r == simple_update_layer(hs, ws, bs, chain, i, addnoise,
                                      noiseless_h1, input_sampling, k)
         IN  update_from(r.hiddens, ws, bs, r.p_X_chain, i + 2, addnoise,
                         noiseless_h1, input_sampling, k)

update_odd_layers(hs, ws, bs, addnoise, noiseless_h1, input_sampling, k) ==
    update_from(hs, ws, bs, <<>>, 1, addnoise, noiseless_h1, input_sampling,
                k).hiddens

update_even_layers(hs, ws, bs, chain, addnoise, noiseless_h1, input_sampling, k) ==
    update_from(hs, ws, bs, chain, 0, addnoise, noiseless_h1, input_sampling, k)

\* one update over the odd layers + one update over the even layers
update_layers(hs, ws, bs, chain, addnoise, noiseless_h1, input_sampling, k) ==
    update_even_layers(update_odd_layers(hs, ws, bs, addnoise, noiseless_h1,
                                         input_sampling, k),
                       ws, bs, chain, addnoise, noiseless_h1, input_sampling, k)

\* returns p_X_chain[0], hiddens_t
update_layers_scan_step(hiddens_t, ws, bs, addnoise, noiseless_h1, input_sampling) ==
    LET odd == update_odd_layers(hiddens_t, ws, bs, addnoise, noiseless_h1,
                                 input_sampling, 1)
        r   == update_even_layers(odd, ws, bs, <<>>, addnoise, noiseless_h1,
                                  input_sampling, 1)
    IN  [x |-> r.p_X_chain[1], hiddens |-> r.hiddens]

\* for i in range(walkbacks): GSN.update_layers(hiddens_0, ..., p_X_chain, ...)
RECURSIVE scan_walkbacks(_, _, _, _, _, _, _, _, _)
scan_walkbacks(hs, ws, bs, chain, addnoise, noiseless_h1, input_sampling, k, walkbacks) ==
    IF k > walkbacks THEN chain
    ELSE LET r == update_layers(hs, ws, bs, chain, addnoise, noiseless_h1,
                                input_sampling, k)
         IN  scan_walkbacks(r.hiddens, ws, bs, r.p_X_chain, addnoise,
                            noiseless_h1, input_sampling, k + 1, walkbacks)

\* x_sample, cost, show_cost of a chain against x
scan_result(chain, x) ==
    LET cs == [n \in 1..Len(chain) |-> cost_of(chain[n], x)]
    IN  [x_sample |-> chain[Len(chain)], cost |-> numpy_sum(cs),
         show_cost |-> cs[Len(cs)]]

\* build_gsn_scan on the input as given, without its corruption
build_gsn_scan_uncorrupted(x, ws, bs, addnoise, noiseless_h1, input_sampling, walkbacks) ==
    scan_result(scan_walkbacks(init_hiddens(<<x>>, ws), ws, bs, <<>>, addnoise,
                               noiseless_h1, input_sampling, 1, walkbacks), x)

build_gsn_scan(x, ws, bs, addnoise, noiseless_h1, input_sampling, walkbacks) ==
    scan_result(scan_walkbacks(init_hiddens(<<corrupt_input(x, addnoise)>>, ws),
                               ws, bs, <<>>, addnoise, noiseless_h1,
                               input_sampling, 1, walkbacks), x)

\* ----------------------------------------------------------- pack, unpack
\* pack_hiddens keeping the even layers instead of the odd ones
pack_hiddens_even(hiddens_list) ==
    concatenate([n \in 1..((Len(hiddens_list) + 1) \div 2) |->
                     hiddens_list[2 * n - 1]])

\* the layers of odd Python index, in ascending order, concatenated
pack_hiddens(hiddens_list) ==
    concatenate([n \in 1..(Len(hiddens_list) \div 2) |-> hiddens_list[2 * n]])

\* slice bounds that forget to halve the index, or take the lower layer's size
slice_start_unhalved(idx, ls) == idx * ls[idx + 1]
slice_end_lower_size(idx, ls) == (idx \div 2 + 1) * ls[idx + 1]

\* the slice bounds unpack_hiddens uses for weight index idx
slice_start(idx, ls) == (idx \div 2) * ls[idx + 1]
slice_end(idx, ls) == (idx \div 2 + 1) * ls[idx + 2]

RECURSIVE unpack_loop(_, _, _, _, _)
unpack_loop(h_list, idx, hiddens_tensor, ws, ls) ==
    IF idx = Len(ws) THEN h_list
    ELSE LET w == ws[idx + 1]
             entry == IF idx % 2 # 0
                      THEN zeros_like(dot(h_list[Len(h_list)], w))
                      ELSE Slice(hiddens_tensor, slice_start(idx, ls), slice_end(idx, ls))
         IN  unpack_loop(Append(h_list, entry), idx + 1, hiddens_tensor, ws, ls)

\* the unpacked list with the input itself as its first entry
unpack_hiddens_from_x(hiddens_tensor, x, ws, ls) ==
    unpack_loop(<<x>>, 0, hiddens_tensor, ws, ls)

unpack_hiddens(hiddens_tensor, x, ws, ls) ==
    unpack_loop(<<zeros_like(x)>>, 0, hiddens_tensor, ws, ls)

\* the width of a packed tensor: the sum of the odd layer widths
RECURSIVE packed_width(_, _)
packed_width(ls, i) ==
    IF i > Len(ls) - 1 THEN 0 ELSE ls[i + 1] + packed_width(ls, i + 2)

\* ------------------------------------------------------------------ state
VARIABLES
    pc,                   \* position in the constructor, "ready" once built
    args,                 \* self.args: the options read after the checks
    inputs_hook,          \* constructor argument: None or the hooked width
    hiddens_hook,         \* constructor argument: given or not
    N_input,              \* self.N_input
    layer_sizes,          \* self.layer_sizes
    funcs,                \* which of the three functions are resolved
    X,                    \* self.X
    weights_list,         \* self.weights_list
    bias_list,            \* self.bias_list
    params,               \* self.params
    noise,                \* self.noise_annealing and the two shared scalars
    graph,                \* the graph under construction
    add_noise,            \* the add_noise argument of the running builder
    hiddens,              \* the hidden-state list the builder updates in place
    p_X_chain,            \* the chain the builder appends to
    wb,                   \* walkbacks completed by the running builder
    phase,                \* the pass being run: "odd" or "even"
    li,                   \* the layer the next simple_update_layer updates
    trace,                \* the layers updated so far in the current walkback
    pass_start,           \* the hidden-state list when the current pass began
    last_pass,            \* update_odd_layers or update_even_layers, the running or last pass
    updated,              \* the indices hiddens[i] was assigned at in that pass
    step,                 \* the last simple_update_layer call: i, walkback, lists on entry
    top_flow,             \* per entry of hiddens: computed from an input-derived top layer
    chain_top,            \* the same for every entry of p_X_chain
    train_chain,          \* p_X_chain of the training graph
    given_ret,            \* (cost, show_cost) of build_gsn_given_hiddens
    p_X_chain_recon,      \* chain of the prediction graph
    output,               \* self.output
    self_hiddens,         \* self.hiddens
    costs,                \* self.cost, self.show_cost, self.monitor
    monitors,             \* the keys of self.monitors
    network_state_input,  \* self.network_state_input
    network_state_output, \* self.network_state_output
    visible_pX_chain,     \* the chain of the sampling step
    f_sample,             \* inputs and outputs of self.f_sample
    attrs,                \* the attributes build_computation_graph has set
    log,                  \* records logged at warning level or above
    raised,               \* the exception of the constructor or the last call
    call,                 \* the last public method called
    arg_t, arg_h,         \* its tensor or list argument
    ret_t, ret_h,         \* its tensor or list result
    ret_o                 \* its result when neither a tensor nor a tensor list

ctor_vars == <<args, inputs_hook, hiddens_hook, N_input, layer_sizes, funcs, X,
               weights_list, bias_list, params, noise>>
loop_vars == <<graph, add_noise, hiddens, p_X_chain, wb, phase, li, trace,
               pass_start, last_pass, updated, step, top_flow, chain_top>>
graph_vars == <<train_chain, given_ret, p_X_chain_recon, output, self_hiddens,
                costs, monitors, network_state_input, network_state_output,
                visible_pX_chain, f_sample, attrs>>
call_vars == <<call, arg_t, arg_h, ret_t, ret_h, ret_o>>
vars == <<pc, ctor_vars, loop_vars, graph_vars, log, raised, call_vars>>

Widths == 1..MaxWidth
NoCosts == [cost |-> NoCost, show_cost |-> NoCost, monitor |-> NoCost]
NoFunction == [inputs |-> <<>>, outputs |-> <<>>]
\* no simple_update_layer call yet in the running builder
NoStep == [i |-> None, k |-> None, add_noise |-> FALSE, hiddens |-> <<>>,
           p_X_chain |-> <<>>]

NoNoise == [noise_annealing |-> None, hidden_add_noise_sigma |-> None,
            input_salt_and_pepper |-> None]

\* the configurations: _defaults overridden by the caller's options
Options(addnoise, salts) ==
    [layers : 1..MaxLayers, walkbacks : 1..MaxWalkbacks,
     hidden_size : Widths, noiseless_h1 : BOOLEAN,
     add_noise : addnoise,
     input_sampling : BOOLEAN,
     input_salt_and_pepper : salts,
     noise_annealing : {DefaultAnnealing},
     hidden_add_noise_sigma : {DefaultSigma}]

\* the state on entry of __init__, for a set of options and of inputs_hooks
Constructing(options, hooks) ==
    /\ pc = "init_input"
    /\ args \in options
    /\ inputs_hook \in hooks
    /\ hiddens_hook \in BOOLEAN
    /\ N_input = None
    /\ layer_sizes = <<>>
    /\ funcs = {}
    /\ X = <<>>
    /\ weights_list = <<>>
    /\ bias_list = <<>>
    /\ params = <<>>
    /\ noise = NoNoise
    /\ graph = "none"
    /\ add_noise = FALSE
    /\ hiddens = <<>>
    /\ p_X_chain = <<>>
    /\ wb = 0
    /\ phase = "odd"
    /\ li = 0
    /\ trace = <<>>
    /\ pass_start = <<>>
    /\ last_pass = "none"
    /\ updated = {}
    /\ step = NoStep
    /\ top_flow = <<>>
    /\ chain_top = <<>>
    /\ train_chain = <<>>
    /\ given_ret = [cost |-> NoCost, show_cost |-> NoCost]
    /\ p_X_chain_recon = <<>>
    /\ output = <<>>
    /\ self_hiddens = <<>>
    /\ costs = NoCosts
    /\ monitors = <<>>
    /\ network_state_input = <<>>
    /\ network_state_output = <<>>
    /\ visible_pX_chain = <<>>
    /\ f_sample = NoFunction
    /\ attrs = {}
    /\ log = <<>>
    /\ raised = "none"
    /\ call = "none"
    /\ arg_t = <<>>
    /\ arg_h = <<>>
    /\ ret_t = <<>>
    /\ ret_h = <<>>
    /\ ret_o = <<>>

\* add_noise as _defaults has it
Init == Constructing(Options({TRUE}, SaltValues), {None} \cup Widths)

\* add_noise set and unset, for a model without inputs_hook
InitAddNoise == Constructing(Options(BOOLEAN, {DefaultSalt}), {None})

\* ------------------------------------------------------------ constructor
\* Abort without the critical log record
AbortUnlogged(kind) ==
    /\ log' = log
    /\ raised' = kind
    /\ pc' = "raised"

\* log.critical(...) followed by raise
Abort(kind) ==
    /\ log' = Append(log, "critical")
    /\ raised' = kind
    /\ pc' = "raised"

\* the input dimensionality: inputs_hook, else the dataset, else input_size
init_input ==
    /\ pc = "init_input"
    /\ \E dataset \in {None} \cup Widths, input_size \in {None} \cup Widths :
         IF inputs_hook = None /\ dataset = None /\ input_size = None
         THEN /\ Abort("AssertionError")
              /\ UNCHANGED N_input
         ELSE /\ N_input' = IF inputs_hook # None THEN inputs_hook
                            ELSE IF dataset # None THEN dataset
                            ELSE input_size
              /\ pc' = "init_walkbacks"
              /\ UNCHANGED <<log, raised>>
    /\ UNCHANGED <<args, inputs_hook, hiddens_hook, layer_sizes, funcs, X,
                   weights_list, bias_list, params, noise, loop_vars,
                   graph_vars, call_vars>>

\* the walkback advice without the odd-layers case
walkbacks_warning_twice(layers, walkbacks) == walkbacks < 2 * layers

\* "Not enough walkbacks for the layers!"
walkbacks_warning(layers, walkbacks) ==
    IF layers % 2 = 0 THEN walkbacks < 2 * layers
    ELSE walkbacks < 2 * layers - 1

\* the walkback advice and the layer sizes
init_network ==
    /\ pc = "init_walkbacks"
    /\ log' = IF walkbacks_warning(args.layers, args.walkbacks)
              THEN Append(log, "warning") ELSE log
    /\ noise' = [noise_annealing |-> args.noise_annealing,
                  hidden_add_noise_sigma |-> args.hidden_add_noise_sigma,
                  input_salt_and_pepper |-> args.input_salt_and_pepper]
    /\ layer_sizes' = layer_sizes_of(N_input, args.hidden_size, args.layers)
    /\ pc' = "init_hidden_activation"
    /\ UNCHANGED <<args, inputs_hook, hiddens_hook, N_input, funcs, X,
                   weights_list, bias_list, params, loop_vars, graph_vars,
                   raised, call_vars>>

ArgKinds == {"callable", "string", "other"}

\* a function option is taken when callable, looked up when a string
ResolveFunction(here, name, next) ==
    /\ pc = here
    /\ \E kind \in ArgKinds :
         IF kind \in {"callable", "string"}
         THEN /\ funcs' = funcs \cup {name}
              /\ pc' = next
              /\ UNCHANGED <<log, raised>>
         ELSE /\ Abort("NotImplementedError")
              /\ UNCHANGED funcs
    /\ UNCHANGED <<args, inputs_hook, hiddens_hook, N_input, layer_sizes, X,
                   weights_list, bias_list, params, noise, loop_vars,
                   graph_vars, call_vars>>

init_hidden_activation ==
    ResolveFunction("init_hidden_activation", "hidden_activation",
                    "init_visible_activation")

init_visible_activation ==
    ResolveFunction("init_visible_activation", "visible_activation",
                    "init_cost_function")

init_cost_function ==
    ResolveFunction("init_cost_function", "cost_function", "init_params")

\* self.X, the weights and the biases
init_params ==
    /\ pc = "init_params"
    /\ X' = IF inputs_hook = None THEN fmatrix("X", 0, N_input)
            ELSE fmatrix("inputs_hook", 0, N_input)
    /\ weights_list' = make_weights_list(layer_sizes, args.layers)
    /\ bias_list' = make_bias_list(layer_sizes, args.layers)
    /\ params' = params_of(weights_list', bias_list')
    /\ pc' = "build_train"
    /\ UNCHANGED <<args, inputs_hook, hiddens_hook, N_input, layer_sizes, funcs,
                   noise, loop_vars, graph_vars, log, raised, call_vars>>

\* -------------------------------------------------- build_computation_graph
hook_tensor == fmatrix("hiddens_hook", 0, packed_width(layer_sizes, 1))

\* the graphs built with the add_noise option of the configuration
graph_add_noise_configured(g, a) == a.add_noise /\ g # "recon"

\* the add_noise argument build_computation_graph passes for graph g: True
\* for the training graph and the sampling step, False for prediction
graph_add_noise(g, a) == g # "recon"

\* network_state_output shares its list with network_state_input
inputs_aliased(nsi, nso) == nso

\* network_state_output is a list of its own ([X_sample] + input[1:]), so
\* the updates made in place on it leave network_state_input as it was
inputs_after_update(nsi, nso) == nsi

\* both passes start at layer 0
first_layer_zero(ph) == 0

\* the first layer of a pass: range(1, len, 2) or range(0, len, 2)
first_layer(ph) == IF ph = "odd" THEN 1 ELSE 0

\* every builder runs update_layers
first_phase_odd(g) == "odd"

\* the pass update_layers (or update_layers_reverse) runs first
first_phase(g) ==
    IF g \in {"train", "recon"} /\ hiddens_hook THEN "even" ELSE "odd"

other_phase(ph) == IF ph = "odd" THEN "even" ELSE "odd"

\* the walkbacks of the running builder; the sampling step runs ONE update
walks(g) == IF g = "sample" THEN 1 ELSE args.walkbacks

\* GSN.build_gsn up to its walkback loop, for the training graph (with
\* noise) and then for the prediction graph (add_noise = False)
build_gsn ==
    /\ pc \in {"build_train", "build_recon"}
    /\ ~hiddens_hook
    /\ graph' = IF pc = "build_train" THEN "train" ELSE "recon"
    /\ add_noise' = graph_add_noise(graph', args)
    /\ hiddens' = init_hiddens(<<corrupt_input(X, add_noise')>>, weights_list)
    /\ p_X_chain' = <<>>
    /\ wb' = 0
    /\ phase' = "odd"
    /\ li' = first_layer("odd")
    /\ trace' = <<>>
    /\ pass_start' = <<>>
    /\ last_pass' = "none"
    /\ updated' = {}
    /\ step' = NoStep
    /\ top_flow' = [j \in 1..Len(hiddens') |-> FALSE]
    /\ chain_top' = <<>>
    /\ pc' = "update"
    /\ UNCHANGED <<ctor_vars, graph_vars, log, raised, call_vars>>

\* the prediction graph built on the list the training graph left behind
build_gsn_given_hiddens_reusing ==
    /\ pc \in {"build_train", "build_recon"}
    /\ hiddens_hook
    /\ graph' = IF pc = "build_train" THEN "train" ELSE "recon"
    /\ add_noise' = graph_add_noise(graph', args)
    /\ hiddens' = IF pc = "build_train"
                  THEN unpack_hiddens(hook_tensor, X, weights_list, layer_sizes)
                  ELSE hiddens
    /\ p_X_chain' = <<>>
    /\ wb' = 0
    /\ phase' = "even"
    /\ li' = first_layer("even")
    /\ trace' = <<>>
    /\ pass_start' = <<>>
    /\ last_pass' = "none"
    /\ updated' = {}
    /\ step' = NoStep
    /\ top_flow' = [j \in 1..Len(hiddens') |-> FALSE]
    /\ chain_top' = <<>>
    /\ pc' = "update"
    /\ UNCHANGED <<ctor_vars, graph_vars, log, raised, call_vars>>

\* GSN.build_gsn_given_hiddens on the unpacked hiddens_hook, up to its loop
build_gsn_given_hiddens ==
    /\ pc \in {"build_train", "build_recon"}
    /\ hiddens_hook
    /\ graph' = IF pc = "build_train" THEN "train" ELSE "recon"
    /\ add_noise' = graph_add_noise(graph', args)
    /\ hiddens' = unpack_hiddens(hook_tensor, X, weights_list, layer_sizes)
    /\ p_X_chain' = <<>>
    /\ wb' = 0
    /\ phase' = "even"
    /\ li' = first_layer("even")
    /\ trace' = <<>>
    /\ pass_start' = <<>>
    /\ last_pass' = "none"
    /\ updated' = {}
    /\ step' = NoStep
    /\ top_flow' = [j \in 1..Len(hiddens') |-> FALSE]
    /\ chain_top' = <<>>
    /\ pc' = "update"
    /\ UNCHANGED <<ctor_vars, graph_vars, log, raised, call_vars>>

\* one simple_update_layer call and the loops around it: update_odd_layers,
\* update_even_layers, update_layers / update_layers_reverse, range(walkbacks)
update_layer ==
    /\ pc = "update"
    /\ LET r == simple_update_layer(hiddens, weights_list, bias_list, p_X_chain,
                                    li, add_noise, args.noiseless_h1,
                                    args.input_sampling, wb + 1)
       IN  /\ hiddens' = r.hiddens
           /\ p_X_chain' = r.p_X_chain
           /\ IF graph = "sample"
              THEN /\ network_state_output' = r.hiddens
                   /\ network_state_input' =
                          inputs_after_update(network_state_input, r.hiddens)
                   /\ visible_pX_chain' = r.p_X_chain
              ELSE UNCHANGED <<network_state_output, network_state_input,
                               visible_pX_chain>>
    /\ trace' = IF phase = first_phase(graph) /\ li = first_layer(phase)
                THEN <<li>> ELSE Append(trace, li)
    /\ pass_start' = IF li = first_layer(phase) THEN hiddens ELSE pass_start
    /\ last_pass' = phase
    /\ LET f == top_influence(top_flow, li, hiddens'[li + 1], X)
       IN  /\ top_flow' = [top_flow EXCEPT ![li + 1] = f]
           /\ chain_top' = IF li = 0 THEN Append(chain_top, f) ELSE chain_top
    /\ step' = [i |-> li, k |-> wb + 1, add_noise |-> add_noise,
                 hiddens |-> hiddens, p_X_chain |-> p_X_chain]
    /\ updated' = IF li = first_layer(phase) THEN {li} ELSE updated \cup {li}
    /\ IF li + 2 < Len(hiddens)
       THEN /\ li' = li + 2
            /\ UNCHANGED <<phase, wb, pc>>
       ELSE IF phase = first_phase(graph)
       THEN /\ phase' = other_phase(phase)
            /\ li' = first_layer(other_phase(phase))
            /\ UNCHANGED <<wb, pc>>
       ELSE /\ wb' = wb + 1
            /\ phase' = first_phase(graph)
            /\ li' = first_layer(first_phase(graph))
            /\ pc' = IF wb + 1 < walks(graph) THEN "update"
                     ELSE IF graph = "sample" THEN "compile" ELSE "return"
    /\ UNCHANGED <<ctor_vars, graph, add_noise, train_chain, given_ret,
                   p_X_chain_recon, output, self_hiddens, costs, monitors,
                   f_sample, attrs, log, raised, call_vars>>

\* the return of the builder into build_computation_graph
build_return ==
    /\ pc = "return"
    /\ given_ret' =
         IF hiddens_hook
         THEN LET cs == [k \in 1..Len(p_X_chain) |-> cost_of(p_X_chain[k], X)]
              IN  [cost |-> numpy_sum(cs), show_cost |-> cs[Len(cs)]]
         ELSE given_ret
    /\ IF graph = "train"
       THEN /\ train_chain' = p_X_chain
            /\ pc' = "build_recon"
            /\ UNCHANGED <<p_X_chain_recon, self_hiddens>>
       ELSE /\ p_X_chain_recon' = p_X_chain
            /\ self_hiddens' = hiddens
            /\ pc' = "costs"
            /\ UNCHANGED train_chain
    /\ UNCHANGED <<ctor_vars, loop_vars, output, costs, monitors,
                   network_state_input, network_state_output, visible_pX_chain,
                   f_sample, attrs, log, raised, call_vars>>

\* "Costs and output", then the set-up of the sampling step
costs_and_output ==
    /\ pc = "costs"
    /\ LET cs  == [k \in 1..Len(train_chain) |-> cost_of(train_chain[k], X)]
           rcs == [k \in 1..Len(p_X_chain_recon) |->
                       cost_of(p_X_chain_recon[k], X)]
       IN  costs' = [cost |-> numpy_sum(cs), show_cost |-> cs[Len(cs)],
                     monitor |-> rcs[Len(rcs)]]
    /\ output' = p_X_chain_recon[Len(p_X_chain_recon)]
    /\ monitors' = <<"noisy_recon_cost", "recon_cost">>
    /\ attrs' = attrs \cup {"show_cost", "cost", "monitor", "output", "hiddens",
                            "monitors", "network_state_input",
                            "network_state_output"}
    /\ LET X_sample == fmatrix("X_sampling", 0, N_input)
           nsi == <<X_sample>> \o
                  [i \in 1..args.layers |->
                       fmatrix("H_sampling", i, args.hidden_size)]
       IN  /\ network_state_input' = nsi
           /\ network_state_output' = <<X_sample>> \o Tail(nsi)
           /\ hiddens' = <<X_sample>> \o Tail(nsi)
    /\ visible_pX_chain' = <<>>
    /\ p_X_chain' = <<>>
    /\ graph' = "sample"
    /\ add_noise' = graph_add_noise(graph', args)
    /\ wb' = 0
    /\ phase' = "odd"
    /\ li' = first_layer("odd")
    /\ trace' = <<>>
    /\ pass_start' = <<>>
    /\ last_pass' = "none"
    /\ updated' = {}
    /\ step' = NoStep
    /\ top_flow' = [j \in 1..Len(hiddens') |-> FALSE]
    /\ chain_top' = <<>>
    /\ pc' = "update"
    /\ UNCHANGED <<ctor_vars, train_chain, given_ret, p_X_chain_recon,
                   self_hiddens, f_sample, log, raised, call_vars>>

\* compile_functions without the single-layer case of f_sample
compile_functions_one_case ==
    /\ pc = "compile"
    /\ attrs' = attrs \cup {"f_noise", "f_sample"}
                      \cup (IF ~hiddens_hook THEN {"f_predict", "f_monitors"}
                            ELSE {})
    /\ f_sample' = [inputs |-> network_state_input,
                    outputs |-> network_state_output \o visible_pX_chain]
    /\ pc' = "ready"
    /\ UNCHANGED <<ctor_vars, loop_vars, train_chain, given_ret,
                   p_X_chain_recon, output, self_hiddens, costs, monitors,
                   network_state_input, network_state_output, visible_pX_chain,
                   log, raised, call_vars>>

\* "Create the predict and monitor functions"
compile_functions ==
    /\ pc = "compile"
    /\ attrs' = attrs \cup {"f_noise", "f_sample"}
                      \cup (IF ~hiddens_hook THEN {"f_predict", "f_monitors"}
                            ELSE {})
    /\ f_sample' =
         IF args.layers = 1
         THEN [inputs |-> <<network_state_input[1]>>,
               outputs |-> <<visible_pX_chain[Len(visible_pX_chain)]>>]
         ELSE [inputs |-> network_state_input,
               outputs |-> network_state_output \o visible_pX_chain]
    /\ pc' = "ready"
    /\ UNCHANGED <<ctor_vars, loop_vars, train_chain, given_ret,
                   p_X_chain_recon, output, self_hiddens, costs, monitors,
                   network_state_input, network_state_output, visible_pX_chain,
                   log, raised, call_vars>>

\* ---------------------------------------------------------- public methods
\* A method that returns, or that fails on a missing attribute, leaves the
\* model as it was: whatever follows it can as well follow the call before
\* it.  Calls are therefore made after the constructor and after the calls
\* that did change the model, the ones that logged an error.
ModelChanged ==
    call = "none" \/ raised \in {"NotImplementedError", "AssertionError"}

\* UsageError raising the kind of the missing-input error
UsageErrorAsAssertion(name) ==
    /\ ModelChanged
    /\ Len(log) < MaxLog
    /\ log' = Append(log, "error")
    /\ raised' = "AssertionError"
    /\ call' = name
    /\ arg_t' = <<>>
    /\ arg_h' = <<>>
    /\ ret_t' = <<>>
    /\ ret_h' = <<>>
    /\ ret_o' = <<>>

\* log.error(...) followed by raise NotImplementedError()
UsageError(name) ==
    /\ ModelChanged
    /\ Len(log) < MaxLog
    /\ log' = Append(log, "error")
    /\ raised' = "NotImplementedError"
    /\ call' = name
    /\ arg_t' = <<>>
    /\ arg_h' = <<>>
    /\ ret_t' = <<>>
    /\ ret_h' = <<>>
    /\ ret_o' = <<>>

Returns(name, at, ah, rt, rh) ==
    /\ ModelChanged
    /\ raised' = "none"
    /\ call' = name
    /\ arg_t' = at
    /\ arg_h' = ah
    /\ ret_t' = rt
    /\ ret_h' = rh
    /\ ret_o' = <<>>
    /\ UNCHANGED log

predict ==
    /\ pc = "ready"
    /\ IF "f_predict" \notin attrs
       THEN UsageError("predict")
       ELSE Returns("predict", fmatrix("input", 0, N_input), <<>>, output, <<>>)
    /\ UNCHANGED <<pc, ctor_vars, loop_vars, graph_vars>>

get_hiddens ==
    /\ pc = "ready"
    /\ IF "hiddens" \notin attrs
       THEN UsageError("get_hiddens")
       ELSE Returns("get_hiddens", <<>>, self_hiddens,
                    pack_hiddens(self_hiddens), <<>>)
    /\ UNCHANGED <<pc, ctor_vars, loop_vars, graph_vars>>

get_outputs ==
    /\ pc = "ready"
    /\ IF "output" \notin attrs
       THEN UsageError("get_outputs")
       ELSE Returns("get_outputs", <<>>, <<>>, output, <<>>)
    /\ UNCHANGED <<pc, ctor_vars, loop_vars, graph_vars>>

\* a hidden-state list matching the layer-size schedule
hiddens_input ==
    [n \in 1..Len(layer_sizes) |-> fmatrix("h", n - 1, layer_sizes[n])]

\* a packed tensor as wide as the odd layers together
packed_input == fmatrix("t", 0, packed_width(layer_sizes, 1))

call_pack_hiddens ==
    /\ pc = "ready"
    /\ \E h \in {hiddens_input, self_hiddens} :
         Returns("pack_hiddens", <<>>, h, pack_hiddens(h), <<>>)
    /\ UNCHANGED <<pc, ctor_vars, loop_vars, graph_vars>>

call_unpack_hiddens ==
    /\ pc = "ready"
    /\ \E t \in {packed_input, pack_hiddens(self_hiddens)} :
         Returns("unpack_hiddens", t, <<>>, <<>>,
                 unpack_hiddens(t, X, weights_list, layer_sizes))
    /\ UNCHANGED <<pc, ctor_vars, loop_vars, graph_vars>>

\* a method returning something other than a tensor or a list of tensors
ReturnsOther(name, option, value) ==
    /\ ModelChanged
    /\ raised' = "none"
    /\ call' = name
    /\ arg_t' = option
    /\ arg_h' = <<>>
    /\ ret_t' = <<>>
    /\ ret_h' = <<>>
    /\ ret_o' = value
    /\ UNCHANGED log

\* an attribute read on self that build_computation_graph never set
AttributeError(name) ==
    /\ ModelChanged
    /\ raised' = "AttributeError"
    /\ call' = name
    /\ arg_t' = <<>>
    /\ arg_h' = <<>>
    /\ ret_t' = <<>>
    /\ ret_h' = <<>>
    /\ ret_o' = <<>>
    /\ UNCHANGED log

get_train_cost ==
    /\ pc = "ready"
    /\ ReturnsOther("get_train_cost", <<>>, costs.cost)
    /\ UNCHANGED <<pc, ctor_vars, loop_vars, graph_vars>>

\* ', '.join(names): one string made of all the names
join(names) == [joined |-> names]

\* the keys of the dictionary get_monitors returns
monitor_keys(names) == <<join(names)>>

get_monitors ==
    /\ pc = "ready"
    /\ IF "f_monitors" \notin attrs
       THEN AttributeError("get_monitors")
       ELSE ReturnsOther("get_monitors", <<>>, monitor_keys(monitors))
    /\ UNCHANGED <<pc, ctor_vars, loop_vars, graph_vars>>

NoiseDecayOptions == {"exponential", "linear", "montreal"}

\* the schedule follows the configured noise_decay
decay_params_configured(noise_decay, a, nz) ==
    <<[decay |-> noise_decay,
       param |-> "input_salt_and_pepper",
       initial |-> a.input_salt_and_pepper,
       factor |-> nz.noise_annealing]>>

\* the hidden noise is scheduled in place of the input noise
decay_params_sigma(noise_decay, a, nz) ==
    <<[decay |-> "exponential",
       param |-> "hidden_add_noise_sigma",
       initial |-> a.hidden_add_noise_sigma,
       factor |-> nz.noise_annealing]>>

\* get_decay_function('exponential', self.input_salt_and_pepper,
\*     self.args.get('input_salt_and_pepper'), self.noise_annealing)
decay_params(noise_decay, a, nz) ==
    <<[decay |-> "exponential",
       param |-> "input_salt_and_pepper",
       initial |-> a.input_salt_and_pepper,
       factor |-> nz.noise_annealing]>>

\* the noise_decay option is in self.args and is not read
get_decay_params ==
    /\ pc = "ready"
    /\ \E noise_decay \in NoiseDecayOptions :
         ReturnsOther("get_decay_params", noise_decay,
                      decay_params(noise_decay, args, noise))
    /\ UNCHANGED <<pc, ctor_vars, loop_vars, graph_vars>>

get_params ==
    /\ pc = "ready"
    /\ ReturnsOther("get_params", <<>>, params)
    /\ UNCHANGED <<pc, ctor_vars, loop_vars, graph_vars>>

\* the static builder with scan's interface, called on the model's own X,
\* parameters and options
call_build_gsn_scan ==
    /\ pc = "ready"
    /\ \E addnoise \in BOOLEAN :
         ReturnsOther("build_gsn_scan", addnoise,
                      build_gsn_scan(X, weights_list, bias_list, addnoise,
                                     args.noiseless_h1, args.input_sampling,
                                     args.walkbacks))
    /\ UNCHANGED <<pc, ctor_vars, loop_vars, graph_vars>>

\* one scan step from the sampling inputs, with noise as in sampling
call_update_layers_scan_step ==
    /\ pc = "ready"
    /\ ReturnsOther("update_layers_scan_step", TRUE,
                    update_layers_scan_step(network_state_input, weights_list,
                                            bias_list, TRUE, args.noiseless_h1,
                                            args.input_sampling))
    /\ UNCHANGED <<pc, ctor_vars, loop_vars, graph_vars>>

Next ==
    \/ init_input
    \/ init_network
    \/ init_hidden_activation
    \/ init_visible_activation
    \/ init_cost_function
    \/ init_params
    \/ build_gsn
    \/ build_gsn_given_hiddens
    \/ update_layer
    \/ build_return
    \/ costs_and_output
    \/ compile_functions
    \/ predict
    \/ get_hiddens
    \/ get_outputs
    \/ call_pack_hiddens
    \/ call_unpack_hiddens
    \/ get_train_cost
    \/ get_monitors
    \/ get_decay_params
    \/ get_params
    \/ call_build_gsn_scan
    \/ call_update_layers_scan_step

Spec == Init /\ [][Next]_vars

SpecAddNoise == InitAddNoise /\ [][Next]_vars

\* ------------------------------------------------------------- properties
\* the random draws a tensor is computed from
NoiseDeps(t) == {a \in AllDeps(t) : a[1] \in NoiseKinds}

\* the draws that only a graph built with add_noise = True can contain
OnlyNoisyDeps(t) == {a \in AllDeps(t) : a[1] \in {SP_INIT, GAUSS_PRE, GAUSS_POST}}

IsZeros(t) == \A j \in 1..Len(t) : t[j] = [deps |-> {}, top |-> "zeros"]

\* build_gsn (not build_gsn_given_hiddens) has reached its return statement
BuildGsnReturns == pc = "return" /\ ~hiddens_hook

\* C1: when build_gsn returns, the chain has exactly `walkbacks` entries and
\* the hidden-state list has layers + 1 entries, entry i as wide as
\* layer_sizes[i] and entry 0 as wide as X.
C1_ChainAndHiddensShape ==
    BuildGsnReturns =>
        /\ Len(p_X_chain) = args.walkbacks
        /\ Len(hiddens) = args.layers + 1
        /\ \A n \in 1..Len(hiddens) : Len(hiddens[n]) = layer_sizes[n]
        /\ Len(hiddens[1]) = Len(X)

C1_Witness ==
    /\ BuildGsnReturns
    /\ args.layers >= 2
    /\ args.walkbacks >= 2
    /\ N_input # args.hidden_size

\* C2: in a build_gsn run with add_noise = False and input_sampling = False
\* no entry of the reconstruction chain is computed from a random draw.
C2_ChainIndependentOfDraws ==
    (graph = "recon" /\ ~hiddens_hook /\ ~args.input_sampling) =>
        \A k \in 1..Len(p_X_chain) : NoiseDeps(p_X_chain[k]) = {}

\* C3 as stated: with noiseless_h1 = True no draw that exists only in the
\* add_noise = True graph of build_gsn reaches the first hidden layer.
C3_H1IndependentOfAddNoise ==
    (args.noiseless_h1 /\ graph \in {"train", "recon"} /\ ~hiddens_hook) =>
        OnlyNoisyDeps(hiddens[2]) = {}

\* C3 as amended: with noiseless_h1 = True the update of the first hidden
\* layer injects no Gaussian noise of its own, with add_noise True or False;
\* the only draws of the add_noise = True graph that reach h1 are the
\* salt-and-pepper corruption of X and the Gaussian noise of layers i >= 2,
\* and with add_noise = False no such draw reaches it.
C3_H1NoOwnNoise ==
    (args.noiseless_h1 /\ graph \in {"train", "recon"} /\ ~hiddens_hook) =>
        /\ \A a \in OnlyNoisyDeps(hiddens[2]) : a[1] = SP_INIT \/ a[2] >= 2
        /\ ~add_noise => OnlyNoisyDeps(hiddens[2]) = {}

C3_Witness ==
    /\ args.noiseless_h1
    /\ graph = "train"
    /\ ~hiddens_hook
    /\ wb >= 1
    /\ <<SP_INIT, 0, 0>> \in AllDeps(hiddens[2])
    /\ \E a \in AllDeps(hiddens[2]) : a[1] = GAUSS_POST /\ a[2] = 2

\* C4: no noise operation lies on the path to the model output, the last
\* reconstruction of the graph built with add_noise = False.
C4_OutputNoiseFree ==
    "output" \in attrs => NoiseDeps(output) = {}

\* C5: packing the list unpack_hiddens made of a packed tensor t gives t
\* back: the odd-layer slices are t's columns, each once, in order.
C5_PackUnpack ==
    call = "unpack_hiddens" => pack_hiddens(ret_h) = arg_t

C5_Witness ==
    /\ call = "unpack_hiddens"
    /\ arg_t = packed_input
    /\ args.layers >= 3
    /\ args.hidden_size >= 2
    /\ N_input # args.hidden_size

\* C6: unpacking the tensor pack_hiddens made of a list h gives a list of
\* the same length whose odd entries are those of h and whose even entries,
\* the visible layer included, are all zeros.
C6_UnpackPack ==
    call = "pack_hiddens" =>
        LET u == unpack_hiddens(ret_t, X, weights_list, layer_sizes)
        IN  /\ Len(u) = Len(arg_h)
            /\ \A n \in 1..Len(u) :
                 IF (n - 1) % 2 = 1 THEN u[n] = arg_h[n] ELSE IsZeros(u[n])

C6_Witness ==
    /\ call = "pack_hiddens"
    /\ arg_h = hiddens_input
    /\ args.layers >= 3
    /\ args.hidden_size >= 2

\* C7: unpack_hiddens returns layers + 1 entries: entry 0 zeros shaped like
\* X, every other even entry zeros of width layer_sizes[i], every odd entry
\* a slice of the packed tensor of width layer_sizes[i].
C7_UnpackShape ==
    call = "unpack_hiddens" =>
        /\ Len(ret_h) = args.layers + 1
        /\ ret_h[1] = zeros_like(X)
        /\ \A n \in 2..Len(ret_h) :
             /\ Len(ret_h[n]) = layer_sizes[n]
             /\ IF (n - 1) % 2 = 0 THEN IsZeros(ret_h[n])
                ELSE \E a \in 0..Len(arg_t) :
                       ret_h[n] = SubSeq(arg_t, a + 1, a + layer_sizes[n])

C7_Witness ==
    /\ call = "unpack_hiddens"
    /\ args.layers >= 2
    /\ N_input # args.hidden_size
    /\ Len(ret_h[2]) = args.hidden_size

\* C8: on every model whose construction completed, predict returns the
\* output of the prediction graph and raises nothing.
C8_PredictAfterConstruction ==
    call = "predict" => (raised = "none" /\ ret_t = output)

\* the methods that check for their graph artefact before using it
UsageOrdered == {"predict", "get_hiddens", "get_outputs"}

\* C9 as stated: the kind of a usage-order error is the kind of no
\* configuration error.
C9_UsageErrorDistinct ==
    /\ (pc = "ready" /\ raised # "none" /\ call \in UsageOrdered) =>
          raised = "NotImplementedError"
    /\ pc = "raised" => raised # "NotImplementedError"

\* C9 as amended: a usage-order error is a NotImplementedError; the missing
\* input dimensionality raises an AssertionError and so differs in kind, but
\* an invalid hidden_activation, visible_activation or cost_function raises
\* a NotImplementedError, the kind of the usage-order error.
C9_ErrorKinds ==
    /\ (pc = "ready" /\ raised # "none" /\ call \in UsageOrdered) =>
          raised = "NotImplementedError"
    /\ (pc = "raised" /\ N_input = None) => raised = "AssertionError"
    /\ (pc = "raised" /\ N_input # None) => raised = "NotImplementedError"

C9_Witness ==
    /\ pc = "ready"
    /\ call = "predict"
    /\ raised = "NotImplementedError"

AllFunctions == {"hidden_activation", "visible_activation", "cost_function"}

\* C10: a configuration error aborts the constructor: its last log record
\* is critical, an exception is raised, no weight or bias exists and
\* build_computation_graph was not entered; parameters and graphs exist
\* only when the input size and the three functions were all resolved.
C10_ConfigErrorAborts ==
    /\ pc = "raised" =>
         /\ raised # "none"
         /\ log # <<>>
         /\ log[Len(log)] = "critical"
         /\ weights_list = <<>>
         /\ bias_list = <<>>
         /\ graph = "none"
         /\ attrs = {}
    /\ (weights_list # <<>> \/ bias_list # <<>> \/ graph # "none") =>
         (N_input # None /\ funcs = AllFunctions)

C10_Witness ==
    /\ pc = "raised"
    /\ raised = "NotImplementedError"
    /\ funcs = {"hidden_activation", "visible_activation"}

\* the number of warning records logged
WarningsLogged == Cardinality({j \in 1..Len(log) : log[j] = "warning"})

\* C11: once the constructor is past the walkback advice, exactly one
\* warning was logged when (layers even and walkbacks < 2*layers) or (layers
\* odd and walkbacks < 2*layers - 1) and none otherwise; nothing was raised
\* there and the layer sizes were set as without the warning.
C11_WalkbackWarning ==
    /\ (pc \notin {"init_input", "init_walkbacks"} /\ N_input # None) =>
         /\ WarningsLogged =
              IF \/ (args.layers % 2 = 0 /\ args.walkbacks < 2 * args.layers)
                 \/ (args.layers % 2 = 1 /\ args.walkbacks < 2 * args.layers - 1)
              THEN 1 ELSE 0
         /\ Len(layer_sizes) = args.layers + 1
    /\ pc = "init_hidden_activation" => raised = "none"
    /\ WarningsLogged > 0 => log[1] = "warning"

C11_Witness ==
    /\ pc = "ready"
    /\ WarningsLogged = 1
    /\ "f_sample" \in attrs

\* the costs of the entries of a chain against x, as sets of leaves
ChainCostDeps(chain, x) ==
    [k \in 1..Len(chain) |-> AllDeps(chain[k]) \cup AllDeps(x)]

\* C12: the training chain is the chain of the builder run with add_noise
\* = True and the prediction chain and self.hiddens those of the run with
\* add_noise = False; self.cost sums the costs of all `walkbacks` entries of
\* the training chain, show_cost is the cost of its last entry, monitor the
\* cost of the last prediction entry, self.output that last entry, and
\* get_train_cost returns self.cost.
C12_CostsAndOutput ==
    /\ pc = "build_recon" => (add_noise /\ train_chain = p_X_chain)
    /\ pc = "costs" =>
         (~add_noise /\ p_X_chain_recon = p_X_chain /\ self_hiddens = hiddens)
    /\ "cost" \in attrs =>
         LET cd == ChainCostDeps(train_chain, X)
             rd == ChainCostDeps(p_X_chain_recon, X)
         IN  /\ Len(train_chain) = args.walkbacks
             /\ costs.cost.kind = "sum"
             /\ costs.cost.n = args.walkbacks
             /\ costs.cost.deps = UNION {cd[k] : k \in 1..Len(cd)}
             /\ costs.show_cost.kind = "cost"
             /\ costs.show_cost.deps = cd[Len(cd)]
             /\ costs.monitor.kind = "cost"
             /\ costs.monitor.deps = rd[Len(rd)]
             /\ output = p_X_chain_recon[Len(p_X_chain_recon)]
             /\ monitors = <<"noisy_recon_cost", "recon_cost">>
    /\ call = "get_train_cost" => ret_o = costs.cost

C12_Witness ==
    /\ call = "get_train_cost"
    /\ ret_o.n >= 2
    /\ costs.show_cost.deps # costs.monitor.deps

\* C13: when build_gsn_given_hiddens has returned, its chain has exactly
\* `walkbacks` entries, its total cost sums the costs of all of them against
\* X and its last cost is the cost of the last entry against X.
C13_GivenHiddensReturn ==
    (hiddens_hook /\ pc \in {"build_recon", "costs"}) =>
        LET cd == ChainCostDeps(p_X_chain, X)
        IN  /\ Len(p_X_chain) = args.walkbacks
            /\ given_ret.cost.kind = "sum"
            /\ given_ret.cost.n = args.walkbacks
            /\ given_ret.cost.deps = UNION {cd[k] : k \in 1..Len(cd)}
            /\ given_ret.show_cost.kind = "cost"
            /\ given_ret.show_cost.deps = cd[Len(cd)]

C13_Witness ==
    /\ hiddens_hook
    /\ pc = "costs"
    /\ args.walkbacks >= 2
    /\ given_ret.cost.n = args.walkbacks

\* C14: with layers = 1 f_sample takes the visible input alone and returns
\* one tensor, the reconstruction of the one walkback; with more layers it
\* takes the layers + 1 states and returns the layers + 1 updated states
\* followed by that reconstruction.
C14_SampleFunction ==
    "f_sample" \in attrs =>
        /\ Len(visible_pX_chain) = 1
        /\ IF args.layers = 1
           THEN /\ f_sample.inputs = <<network_state_input[1]>>
                /\ f_sample.outputs = <<visible_pX_chain[1]>>
           ELSE /\ f_sample.inputs = network_state_input
                /\ Len(f_sample.inputs) = args.layers + 1
                /\ Len(f_sample.outputs) = args.layers + 2
                /\ SubSeq(f_sample.outputs, 1, args.layers + 1) =
                       network_state_output
                /\ f_sample.outputs[args.layers + 2] = visible_pX_chain[1]

C14_Witness ==
    /\ "f_sample" \in attrs
    /\ args.layers = 1
    /\ Len(f_sample.outputs) = 1

\* the names of the shared variables that the returned schedules decay
DecayedParams == {ret_o[j].param : j \in 1..Len(ret_o)}

C16_BothScalarsDecayed ==
    call = "get_decay_params" =>
        {"input_salt_and_pepper", "hidden_add_noise_sigma"} \subseteq
            DecayedParams

\* C16 as amended: of the two noise scalars the constructor makes shared
\* variables, input_salt_and_pepper is in the list of decay parameters and
\* hidden_add_noise_sigma is in none of them; its value stays the
\* configured one.
C16_OnlySaltDecayed ==
    /\ pc = "ready" =>
          /\ noise.hidden_add_noise_sigma = args.hidden_add_noise_sigma
          /\ noise.input_salt_and_pepper = args.input_salt_and_pepper
    /\ call = "get_decay_params" =>
          /\ "input_salt_and_pepper" \in DecayedParams
          /\ "hidden_add_noise_sigma" \notin DecayedParams

C16_Witness ==
    /\ call = "get_decay_params"
    /\ DecayedParams = {"input_salt_and_pepper"}
    /\ noise.hidden_add_noise_sigma = DefaultSigma

\* the constructor has created the parameters
Constructed ==
    pc \in {"build_train", "update", "return", "build_recon", "costs",
            "compile", "ready"}

\* C17: once constructed with L layers the parameter list holds the L
\* weights W_i_(i+1) of shape (layer_sizes[i], layer_sizes[i+1]) in
\* ascending i and then the L + 1 biases b_i of shape (layer_sizes[i],) in
\* ascending i, where layer_sizes is the input dimensionality followed by L
\* copies of hidden_size; no step of a graph build changes the list and
\* get_params returns it.
C17_Params ==
    /\ Constructed =>
          LET L == args.layers
              size(i) == IF i = 0 THEN N_input ELSE args.hidden_size
          IN  /\ Len(layer_sizes) = L + 1
              /\ \A i \in 0..L : layer_sizes[i + 1] = size(i)
              /\ Len(weights_list) = L
              /\ Len(bias_list) = L + 1
              /\ Len(params) = 2 * L + 1
              /\ \A i \in 0..(L - 1) :
                    params[i + 1] = [name |-> <<"W", i, i + 1>>,
                                     shape |-> <<size(i), size(i + 1)>>]
              /\ \A i \in 0..L :
                    params[L + 1 + i] = [name |-> <<"b", i>>,
                                         shape |-> <<size(i)>>]
    /\ call = "get_params" => (raised = "none" /\ ret_o = params)

C17_Witness ==
    /\ call = "get_params"
    /\ args.layers = 3
    /\ N_input # args.hidden_size
    /\ Len(ret_o) = 7
    /\ ret_o[3].shape = <<args.hidden_size, args.hidden_size>>
    /\ ret_o[4].name = <<"b", 0>>

\* C18 as stated: get_monitors returns one entry per monitored quantity,
\* keyed by that quantity's own name: noisy_recon_cost and recon_cost.
C18_MonitorPerName ==
    (call = "get_monitors" /\ raised = "none") =>
        ret_o = <<join(<<"noisy_recon_cost">>), join(<<"recon_cost">>)>>

\* the indices below n of one parity, in ascending order
RECURSIVE Ascending(_, _)
Ascending(from, n) ==
    IF from >= n THEN <<>> ELSE <<from>> \o Ascending(from + 2, n)

IsPrefix(a, b) == Len(a) <= Len(b) /\ a = SubSeq(b, 1, Len(a))

\* the updates of one walkback of the builder that is running
WalkbackOrder ==
    LET n == args.layers + 1
    IN  IF hiddens_hook THEN Ascending(0, n) \o Ascending(1, n)
        ELSE Ascending(1, n) \o Ascending(0, n)

\* C19: in build_gsn every walkback updates all odd layers in ascending
\* order and then all even layers in ascending order; in
\* build_gsn_given_hiddens every walkback updates all even layers in
\* ascending order and then all odd layers in ascending order; the layers
\* updated so far in a walkback are always the beginning of that order, so
\* no layer of the other parity comes between two updates of one pass.
C19_PassOrder ==
    (graph \in {"train", "recon"} /\ pc \in {"update", "return"}) =>
        /\ IsPrefix(trace, WalkbackOrder)
        /\ pc = "return" => (trace = WalkbackOrder /\ wb = args.walkbacks)
        /\ pc = "update" =>
              /\ wb < args.walkbacks
              /\ IF Len(trace) < Len(WalkbackOrder)
                 THEN li = WalkbackOrder[Len(trace) + 1]
                 ELSE wb >= 1 /\ li = WalkbackOrder[1]
              /\ wb = 0 => Len(trace) < Len(WalkbackOrder)

C19_Witness ==
    /\ hiddens_hook
    /\ graph = "train"
    /\ pc = "update"
    /\ args.layers = 3
    /\ wb = 1
    /\ trace = <<0, 2, 1, 3>>

\* the layers of update_odd_layers or of update_even_layers
LayersOfPass(pass) ==
    {j \in 0..args.layers : j % 2 = (IF pass = "odd" THEN 1 ELSE 0)}

\* the pass that ran the last update has run all of its updates
PassDone == pc # "update" \/ phase # last_pass

\* C20: update_odd_layers assigns only odd-indexed entries of the hidden
\* list and update_even_layers only even-indexed ones; every entry the pass
\* has not assigned is the one the list held when the pass began, so the
\* entries of the other parity are unchanged; when the pass is over it has
\* assigned every entry of its parity; the list keeps its length and the
\* weight and bias lists are the ones the constructor made.
C20_PassesDisjoint ==
    last_pass \in {"odd", "even"} =>
        /\ Len(hiddens) = args.layers + 1
        /\ Len(pass_start) = args.layers + 1
        /\ updated # {}
        /\ updated \subseteq LayersOfPass(last_pass)
        /\ \A j \in 0..args.layers :
              j \notin updated => hiddens[j + 1] = pass_start[j + 1]
        /\ \A j \in updated : ~IsZeros(hiddens[j + 1])
        /\ PassDone => updated = LayersOfPass(last_pass)
        /\ Len(weights_list) = args.layers
        /\ Len(bias_list) = args.layers + 1
        /\ \A n \in 1..args.layers :
              weights_list[n] = [i |-> n - 1, rows |-> layer_sizes[n],
                                 cols |-> layer_sizes[n + 1]]
        /\ \A n \in 1..(args.layers + 1) :
              bias_list[n] = [i |-> n - 1, size |-> layer_sizes[n]]

C20_Witness ==
    /\ last_pass = "odd"
    /\ phase = "even"
    /\ pc = "update"
    /\ args.layers = 3
    /\ updated = {1, 3}
    /\ IsZeros(pass_start[2])
    /\ ~IsZeros(hiddens[2])
    /\ IsZeros(hiddens[3])
    /\ hiddens[1] = pass_start[1]

\* a simple_update_layer call has been made in the running builder
Stepped == step.k # None

\* the entry of the hidden list the last call assigned
Assigned == hiddens[step.i + 1]

\* the random draws that the call of layer i in walkback k can make
StepDraws(i, k) == {<<kind, i, k>> : kind \in NoiseKinds}

W(i) == <<"W", i, 0>>
b(i) == <<"b", i, 0>>

\* C22: the call of layer i computes hiddens[i] from its existing
\* neighbours and no other entry: layer 0 from h1, W_0 and b_0, the top
\* layer L from h_(L-1), W_(L-1) and b_L, a layer in between from h_(i-1),
\* W_(i-1), h_(i+1), W_i and b_i; the shapes agree (W_0 and W_i enter
\* transposed), the result has the width of layer i, and every other entry
\* of the list is left as it was.
C22_Neighbours ==
    Stepped =>
        LET i  == step.i
            L  == args.layers
            hs == step.hiddens
            read == IF i = 0 THEN AllDeps(hs[2]) \cup {W(0), b(0)}
                    ELSE IF i = L
                    THEN AllDeps(hs[L]) \cup {W(L - 1), b(L)}
                    ELSE AllDeps(hs[i]) \cup AllDeps(hs[i + 2])
                             \cup {W(i - 1), W(i), b(i)}
        IN  /\ i \in 0..L
            /\ Len(hs) = L + 1
            /\ Len(hiddens) = L + 1
            /\ Len(Assigned) = layer_sizes[i + 1]
            /\ \A c \in 1..Len(Assigned) :
                  /\ Assigned[c].deps \ StepDraws(i, step.k) = read
                  /\ SHAPE_ERROR \notin Assigned[c].deps
            /\ \A j \in 0..L : j # i => hiddens[j + 1] = hs[j + 1]

C22_Witness ==
    /\ Stepped
    /\ args.layers = 3
    /\ step.i = 2
    /\ step.k = 2
    /\ N_input # args.hidden_size
    /\ {W(1), W(2), b(2)} \subseteq AllDeps(hiddens[3])

Gaussian == {GAUSS_PRE, GAUSS_POST}

\* C23: the call of layer i in walkback k draws Gaussian noise before and
\* after the activation exactly when the builder runs with add_noise, i >= 1
\* and not (i = 1 and noiseless_h1); so layer 0 never draws it, a layer
\* above 1 draws it also when noiseless_h1 is set, and with add_noise unset
\* no entry of the hidden list carries any Gaussian draw.
C23_GaussianNoise ==
    Stepped =>
        LET i == step.i
            noisy == step.add_noise /\ i >= 1 /\ ~(i = 1 /\ args.noiseless_h1)
        IN  /\ \A c \in 1..Len(Assigned) :
                  /\ (<<GAUSS_PRE, i, step.k>> \in Assigned[c].deps) = noisy
                  /\ (<<GAUSS_POST, i, step.k>> \in Assigned[c].deps) = noisy
                  /\ i >= 1 => Assigned[c].top =
                        (IF noisy THEN "add_gaussian" ELSE "hidden_activation")
            /\ \A j \in 1..Len(hiddens) : \A d \in AllDeps(hiddens[j]) :
                  d[1] \in Gaussian =>
                      /\ step.add_noise
                      /\ d[2] >= 1
                      /\ ~(d[2] = 1 /\ args.noiseless_h1)

C23_Witness ==
    /\ Stepped
    /\ step.add_noise
    /\ args.noiseless_h1
    /\ args.layers = 3
    /\ step.i = 3
    /\ step.k = 1
    /\ <<GAUSS_PRE, 3, 1>> \in AllDeps(hiddens[4])
    /\ <<GAUSS_POST, 3, 1>> \in AllDeps(hiddens[4])
    /\ AllDeps(hiddens[2]) \cap {<<GAUSS_PRE, 1, 1>>, <<GAUSS_POST, 1, 1>>} = {}

\* C24: build_gsn_scan on the model's X, parameters, flags and walkback
\* count returns the last entry of the chain build_gsn built with the same
\* add_noise, the sum of the costs of all `walkbacks` entries of that chain
\* and the cost of its last entry; update_layers_scan_step from the sampling
\* inputs returns the one reconstruction and the updated states that the
\* sampling step, one odd pass then one even pass, produced.
C24_ScanBuilder ==
    /\ call = "build_gsn_scan" =>
          /\ ret_o.cost.kind = "sum"
          /\ ret_o.cost.n = args.walkbacks
          /\ ret_o.show_cost.kind = "cost"
          /\ ret_o.show_cost.deps = AllDeps(ret_o.x_sample) \cup AllDeps(X)
    /\ (call = "build_gsn_scan" /\ ~hiddens_hook) =>
          LET chain == IF arg_t THEN train_chain ELSE p_X_chain_recon
              cd == ChainCostDeps(chain, X)
          IN  /\ ret_o.x_sample = chain[Len(chain)]
              /\ ret_o.cost.deps = UNION {cd[k] : k \in 1..Len(cd)}
              /\ ret_o.show_cost.deps = cd[Len(cd)]
              /\ arg_t => (ret_o.cost = costs.cost /\
                           ret_o.show_cost = costs.show_cost)
              /\ ~arg_t => ret_o.show_cost = costs.monitor
    /\ call = "update_layers_scan_step" =>
          /\ ret_o.x = visible_pX_chain[1]
          /\ ret_o.hiddens = network_state_output

C24_Witness ==
    /\ call = "build_gsn_scan"
    /\ ~hiddens_hook
    /\ arg_t
    /\ args.walkbacks = 3
    /\ args.layers = 2
    /\ ret_o.x_sample = train_chain[3]
    /\ <<SP_INIT, 0, 0>> \in AllDeps(ret_o.x_sample)

\* computed from the input X
FromX(t) == AllDeps(t) \cap AllDeps(X) # {}

\* layer i has been updated in walkback w of the running builder
UpdatedIn(i, w) ==
    \/ wb >= w
    \/ /\ wb = w - 1
       /\ Len(trace) < args.layers + 1
       /\ \E n \in 1..Len(trace) : trace[n] = i

\* C25: in build_gsn hidden layer i >= 1 holds a value computed from X
\* exactly from its update in walkback ceil(i/2) on, and the reconstruction
\* appended in walkback k is computed from an input-derived value of the top
\* layer L exactly when k >= L; so with fewer than L walkbacks no entry of
\* the chain is.
C25_Propagation ==
    (~hiddens_hook /\ graph \in {"train", "recon"}
                   /\ pc \in {"update", "return"}) =>
        /\ \A i \in 1..args.layers :
              FromX(hiddens[i + 1]) = UpdatedIn(i, (i + 1) \div 2)
        /\ Len(chain_top) = Len(p_X_chain)
        /\ \A k \in 1..Len(p_X_chain) : chain_top[k] = (k >= args.layers)
        /\ pc = "return" =>
              ((\E k \in 1..Len(p_X_chain) : chain_top[k]) =
                   (args.walkbacks >= args.layers))

C25_Witness ==
    /\ ~hiddens_hook
    /\ graph = "train"
    /\ pc = "return"
    /\ args.layers = 3
    /\ args.walkbacks = 3
    /\ chain_top = <<FALSE, FALSE, TRUE>>
    /\ FromX(hiddens[4])

\* the leaves a graph built from the hiddens_hook alone can have
HookLeaves(t) ==
    \A d \in AllDeps(t) : d[1] \in {"hiddens_hook", "W", "b"} \cup NoiseKinds

\* C26: while and after build_gsn_given_hiddens runs, no entry of its hidden
\* list and no entry of its chain is computed from X: they are computed
\* from the supplied hidden states, the parameters and the random draws
\* alone; the two costs it returns are computed from X.
C26_GivenHiddensIgnoreX ==
    (hiddens_hook /\ graph \in {"train", "recon"}) =>
        /\ \A j \in 1..Len(hiddens) :
              ~FromX(hiddens[j]) /\ HookLeaves(hiddens[j])
        /\ \A k \in 1..Len(p_X_chain) :
              ~FromX(p_X_chain[k]) /\ HookLeaves(p_X_chain[k])
        /\ pc \in {"build_recon", "costs"} =>
              /\ AllDeps(X) \subseteq given_ret.cost.deps
              /\ AllDeps(X) \subseteq given_ret.show_cost.deps

C26_Witness ==
    /\ hiddens_hook
    /\ pc = "costs"
    /\ args.layers = 2
    /\ args.walkbacks = 2
    /\ <<"hiddens_hook", 1, 0>> \in AllDeps(p_X_chain[2])
    /\ W(1) \in AllDeps(hiddens[3])
    /\ AllDeps(X) \subseteq given_ret.cost.deps

SamplingInputs ==
    [n \in 1..(args.layers + 1) |->
        IF n = 1 THEN fmatrix("X_sampling", 0, N_input)
        ELSE fmatrix("H_sampling", n - 1, args.hidden_size)]

\* C28: while and after the sampling step is built, network_state_input is
\* the list of the layers + 1 placeholders in order; an entry of
\* network_state_output not yet updated is still its placeholder, and once
\* the one walkback is over all layers + 1 entries are updated states and
\* the sampling chain holds exactly one reconstruction.
C28_SamplingInputsKept ==
    graph = "sample" =>
        /\ network_state_input = SamplingInputs
        /\ Len(network_state_output) = args.layers + 1
        /\ pc = "update" =>
              \A j \in 0..args.layers :
                  (\A n \in 1..Len(trace) : trace[n] # j) =>
                      network_state_output[j + 1] = network_state_input[j + 1]
        /\ pc \in {"compile", "ready"} =>
              /\ \A j \in 1..(args.layers + 1) :
                    /\ network_state_output[j] # network_state_input[j]
                    /\ \A c \in 1..Len(network_state_output[j]) :
                          network_state_output[j][c].top # "input"
              /\ Len(visible_pX_chain) = 1

C28_Witness ==
    /\ pc = "ready"
    /\ args.layers = 3
    /\ Len(visible_pX_chain) = 1
    /\ network_state_input[4] = fmatrix("H_sampling", 3, args.hidden_size)
    /\ network_state_output[4] # network_state_input[4]
    /\ <<"H_sampling", 1, 2>> \in AllDeps(network_state_output[4])

\* the list unpack_hiddens makes of the hiddens_hook: zeros for the visible
\* and the even layers, the slices of the hook for the odd layers
FreshlyUnpacked ==
    [n \in 1..(args.layers + 1) |->
        IF n % 2 = 0
        THEN [c \in 1..args.hidden_size |->
                 [deps |-> {<<"hiddens_hook",
                              (n \div 2 - 1) * args.hidden_size + c, 0>>},
                  top |-> "input"]]
        ELSE [c \in 1..layer_sizes[n] |-> [deps |-> {}, top |-> "zeros"]]]

\* C29: with a hiddens_hook the training graph and the prediction graph
\* both start from the freshly unpacked list, so nothing the training
\* graph assigned is in the list the prediction graph starts from; the list
\* build_gsn_given_hiddens returns as final hiddens, kept as self.hiddens,
\* is the list it was passed, as updated in place.
C29_FreshHiddens ==
    /\ (hiddens_hook /\ graph \in {"train", "recon"} /\ pc = "update"
                     /\ ~Stepped) => hiddens = FreshlyUnpacked
    /\ (hiddens_hook /\ graph \in {"train", "recon"} /\ Stepped
                     /\ wb = 0 /\ trace = <<0>>) =>
            step.hiddens = FreshlyUnpacked
    /\ (hiddens_hook /\ pc = "costs") =>
            /\ self_hiddens = hiddens
            /\ \A j \in 1..Len(self_hiddens) :
                  self_hiddens[j] # FreshlyUnpacked[j]

C29_Witness ==
    /\ hiddens_hook
    /\ graph = "recon"
    /\ pc = "update"
    /\ ~Stepped
    /\ args.layers = 3
    /\ hiddens = FreshlyUnpacked
    /\ train_chain # <<>>
    /\ <<SP, 0, 1>> \in AllDeps(train_chain[1]) \/ W(0) \in AllDeps(train_chain[1])

====
